---- MODULE Spec2Model ----
(***************************************************************************)
(* Model of the thread aggregation-and-cache code of discord-catchup       *)
(* (src/cli_discord_utils.py), of the thread_catchup navigation session    *)
(* that drives it, of the dispatch that ends the session                   *)
(* (src/cli_prompt_handler.py, src/cli_llm_handler.py) and of main()       *)
(* around them (src/cli.py), and of the commands of the older entry point  *)
(* (src/discord_catchup.py) with its interactive menu.                     *)
(*                                                                         *)
(* Python values are modelled by what the code does with them:             *)
(*   - an id is [t |-> "int"|"str", v |-> n]: str(id) changes the tag,     *)
(*     never the digits;                                                   *)
(*   - None is <<>> and a present optional value x is <<x>>;               *)
(*   - a live discord.Thread is a record with all the attributes the code  *)
(*     reads; a thread loaded from the cache is the SimpleNamespace the    *)
(*     loader builds (six attributes, string ids).                         *)
(***************************************************************************)
EXTENDS Integers, Sequences, FiniteSets, TLC

(***************************************************************************)
(* Bounds of the model and constants of the program.                       *)
(***************************************************************************)
\* a remote query returns at most MaxLen threads
MaxLen == 1
\* a channel or thread holds at most MaxMessages messages
MaxMessages == 2
\* the clock runs from StartTime to StartTime + MaxElapsed
MaxElapsed == 3601
\* freshness window of a cache file, in seconds
TTL == 3600
\* timedelta(days=1) in seconds
SecondsPerDay == 86400

\* ids of the text channels and of the threads of the guild
ChannelIds == {1, 2}
ThreadIds == {1, 2}
\* the channel fetch_threads is called on outside a session
CallChannels == {1}

StartTime == 2 * SecondsPerDay
\* archive time of a thread archived more than a day before the session
OldTime == StartTime - 2 * SecondsPerDay
ThreadNames == {"general"}
\* --max-age values: None or a number of days
MaxAgeValues == {<<>>, <<1>>}

None == <<>>
Some(x) == <<x>>

IntId(n) == [t |-> "int", v |-> n]
\* str(x) of an id, int or already a string
Str(x) == [t |-> "str", v |-> x.v]

\* datetime.isoformat() and datetime.fromisoformat()
IsoFormat(ts) == [iso |-> ts]
FromIsoFormat(s) == s.iso

\* a discord.Thread as the remote queries return it
Thread(i, p, nm, arch, ts) ==
    [id |-> IntId(i), parent_id |-> IntId(p), name |-> nm, archived |-> arch,
     locked |-> FALSE, archive_timestamp |-> ts,
     last_message_id |-> None, auto_archive_duration |-> 1440]

\* guild.active_threads(): the active threads of the whole guild
ActiveThreadObjects ==
    {Thread(i, p, nm, FALSE, None) : i \in ThreadIds, p \in ChannelIds, nm \in ThreadNames}

\* channel.archived_threads(...): archived threads of that channel only,
\* archived long ago or just now
ArchivedThreadObjects(ch, times) ==
    {Thread(i, ch, nm, TRUE, Some(ts)) :
        i \in ThreadIds, nm \in ThreadNames, ts \in times}

\* the sequences of at most MaxLen threads with pairwise different ids
RECURSIVE SeqsUpTo(_, _)
SeqsUpTo(S, n) ==
    IF n = 0 THEN {<<>>}
    ELSE LET shorter == SeqsUpTo(S, n - 1)
         IN  shorter \cup
             {Append(s, x) : s \in {u \in shorter : Len(u) = n - 1}, x \in S}

DistinctIds(s) == \A i, j \in 1..Len(s) : s[i].id.v = s[j].id.v => i = j

QueryResults(S) == {s \in SeqsUpTo(S, MaxLen) : DistinctIds(s)}

QueryNames == {"active", "public", "private"}

VARIABLES
    now,       \* time.time(), in seconds
    cache,     \* .cache/threads_cache_<channel>.json, per channel
    fpc,       \* position of the fetch_threads call in progress
    call,      \* arguments of that call, with the time and the cache file on entry
    threads,   \* fetch_threads' local list
    q,         \* outcome of each remote query of the call
    ret,       \* the value fetch_threads returned
    exc,       \* where an exception that left fetch_threads came from
    saved,     \* what the storage did to the save of that call
    world,     \* what the remote side holds (fixed during a run)
    guild,     \* the channels guild.fetch_channels() returns
    opts,      \* the options thread_catchup was started with
    npc,       \* position of thread_catchup's run()
    nav,       \* run()'s locals
    shown,     \* the prompts shown to the user so far
    out,       \* the messages echoed so far
    disp,      \* what the dispatch of run() fetched, emitted and wrote
    mpc,       \* position of main()
    client,    \* the Discord client: "new", "logged_in" or "closed"
    menu       \* the command of discord_catchup.py in progress and its locals

\* the archive times of the threads the remote side holds
ArchiveTimes == world.archive_times

fvars == <<fpc, call, threads, q, ret, exc, saved>>
nvars == <<world, guild, opts, npc, nav, shown, out, disp, mpc, client, menu>>
vars == <<now, cache, fpc, call, threads, q, ret, exc, saved,
          world, guild, opts, npc, nav, shown, out, disp, mpc, client, menu>>

(***************************************************************************)
(* The cache file of one channel.                                          *)
(***************************************************************************)
NoFile == [exists |-> FALSE, mtime |-> 0, fmt |-> "none", data |-> <<>>, origin |-> <<>>]
\* fmt: "json" a list of objects, as json.dump wrote it; "garbage" json.load
\* raises (empty, truncated, not JSON); "not_a_list" JSON that is no list of objects
JsonFile(t, data, live) ==
    [exists |-> TRUE, mtime |-> t, fmt |-> "json", data |-> data, origin |-> live]
BadFile(t, kind) ==
    [exists |-> TRUE, mtime |-> t, fmt |-> kind, data |-> <<>>, origin |-> <<>>]

(***************************************************************************)
(* _load_threads_from_cache                                                *)
(***************************************************************************)
\* the check of line 264 without the age test
CacheFileUnusableNoAge(entry, t) == ~entry.exists

\* line 264: no file, or a file older than the freshness window
CacheFileUnusable(entry, t) == ~entry.exists \/ t - entry.mtime > TTL

\* lines 272-290: one cached dict to a SimpleNamespace
ThreadFromDict(d) ==
    [id |-> d.id, parent_id |-> d.parent_id, name |-> d.name,
     archived |-> d.archived, locked |-> d.locked,
     archive_timestamp |->
        IF d.archive_timestamp # None
        THEN Some(FromIsoFormat(d.archive_timestamp[1]))
        ELSE None]

\* lines 268-291: open, json.load and the conversion loop; ok = FALSE when any
\* of them raises
ParseCacheFile(entry) ==
    IF entry.fmt = "json"
    THEN [ok |-> TRUE,
          threads |-> [i \in 1..Len(entry.data) |-> ThreadFromDict(entry.data[i])]]
    ELSE [ok |-> FALSE, threads |-> <<>>]

\* the parse without the try/except: a failure leaves the loader
LoadUnguarded(entry) ==
    LET p == ParseCacheFile(entry)
    IN  [raised |-> ~p.ok, threads |-> p.threads]

\* lines 267-294: the try/except around the parse
LoadGuarded(entry) ==
    LET p == ParseCacheFile(entry)
    IN  IF p.ok THEN [raised |-> FALSE, threads |-> p.threads]
        ELSE [raised |-> FALSE, threads |-> <<>>]

LoadThreadsFromCache(c, ch, t) ==
    IF CacheFileUnusable(c[ch], t)
    THEN [raised |-> FALSE, threads |-> <<>>]
    ELSE LoadGuarded(c[ch])

\* a loader that removes the file it cannot use
StoreAfterLoadEvicts(c, ch, t) ==
    IF CacheFileUnusable(c[ch], t) \/ ~ParseCacheFile(c[ch]).ok
    THEN [c EXCEPT ![ch] = [exists |-> FALSE, mtime |-> 0, fmt |-> "none",
                            data |-> <<>>, origin |-> <<>>]]
    ELSE c

\* lines 262-294: the store after a load; the loader calls exists, getmtime
\* and open(.., "r"), none of which changes a file
StoreAfterLoad(c, ch, t) == c

(***************************************************************************)
(* _save_threads_to_cache                                                  *)
(***************************************************************************)
\* lines 303-313: one thread to the dict that is dumped
DictFromThread(th) ==
    [id |-> Str(th.id), parent_id |-> Str(th.parent_id), name |-> th.name,
     archived |-> th.archived, locked |-> th.locked,
     archive_timestamp |->
        IF th.archive_timestamp # None
        THEN Some(IsoFormat(th.archive_timestamp[1]))
        ELSE None]

\* what the storage does to one save
SaveOutcomes == {"ok", "makedirs_fails", "open_fails", "write_fails"}

\* a save that writes the file of every channel
SaveToEveryChannel(c, ch, ths, t, outcome) ==
    [raised |-> FALSE,
     cache |-> [k \in DOMAIN c |->
        [exists |-> TRUE, mtime |-> t, fmt |-> "json",
         data |-> [i \in 1..Len(ths) |->
            [id |-> Str(ths[i].id), parent_id |-> Str(ths[i].parent_id),
             name |-> ths[i].name, archived |-> ths[i].archived,
             locked |-> ths[i].locked, archive_timestamp |-> None]],
         origin |-> ths]]]

\* a save that leaves the storage as it was
SaveNothing(c, ch, ths, t, outcome) == [raised |-> FALSE, cache |-> c]

\* lines 299-318. makedirs is outside the try: its failure leaves the function;
\* open(.., "w") truncates the file before json.dump writes it
SaveThreadsToCache(c, ch, ths, t, outcome) ==
    CASE outcome = "makedirs_fails" -> [raised |-> TRUE, cache |-> c]
      [] outcome = "open_fails" -> [raised |-> FALSE, cache |-> c]
      [] outcome = "write_fails" ->
            [raised |-> FALSE, cache |-> [c EXCEPT ![ch] = BadFile(t, "garbage")]]
      [] OTHER ->
            [raised |-> FALSE,
             cache |-> [c EXCEPT ![ch] =
                JsonFile(t, [i \in 1..Len(ths) |-> DictFromThread(ths[i])], ths)]]

(***************************************************************************)
(* fetch_threads                                                           *)
(***************************************************************************)
\* a test that passes for every list, the empty one included
NotNone(list) == TRUE

\* Python truthiness of a list
Truthy(list) == Len(list) > 0

\* unique_threads[key] = value on a dict kept as a sequence of <<key, value>>:
\* an existing key keeps its place and takes the new value
DictSet(d, k, v) ==
    IF \E i \in 1..Len(d) : d[i][1] = k
    THEN [i \in 1..Len(d) |-> IF d[i][1] = k THEN <<k, v>> ELSE d[i]]
    ELSE Append(d, <<k, v>>)

RECURSIVE DictOfThreads(_, _)
DictOfThreads(d, ths) ==
    IF ths = <<>> THEN d
    ELSE DictOfThreads(DictSet(d, Str(Head(ths).id), Head(ths)), Tail(ths))

\* the list left as the queries built it
DeduplicateNothing(ths) == ths

\* lines 233-236
Deduplicate(ths) ==
    LET d == DictOfThreads(<<>>, ths)
    IN  [i \in 1..Len(d) |-> d[i][2]]

\* the active threads of the guild taken unfiltered
OfAnyChannel(res, ch) == res

\* line 213: the filter on the active threads of the guild
OfChannel(res, ch) == SelectSeq(res, LAMBDA th : th.parent_id = IntId(ch))

\* lines 239-246 are commented out: max_age_days is not used
ApplyAgeFilter(ths, max_age_days, t) == ths

NoQueries == [n \in QueryNames |-> [st |-> "pending", res |-> <<>>]]
IdleCall ==
    [ch |-> 1, use_cache |-> FALSE, max_age_days |-> None, at |-> 0, seen |-> NoFile]

\* the cache read whatever the flag
LoadAlways(use_cache, c, ch, t) == LoadThreadsFromCache(c, ch, t)

\* lines 201-205: threads = [] unless use_cache asks for the cache
LoadIfCaching(use_cache, c, ch, t) ==
    IF use_cache THEN LoadThreadsFromCache(c, ch, t)
    ELSE [raised |-> FALSE, threads |-> <<>>]

\* lines 201-207: entry of fetch_threads up to its first await
CallFetchThreads(ch, use_cache, max_age_days) ==
    /\ call' = [ch |-> ch, use_cache |-> use_cache, max_age_days |-> max_age_days,
                at |-> now, seen |-> IF use_cache THEN cache[ch] ELSE NoFile]
    /\ q' = NoQueries
    /\ cache' = (IF use_cache THEN StoreAfterLoad(cache, ch, now) ELSE cache)
    /\ LET loaded == LoadIfCaching(use_cache, cache, ch, now)
       IN  IF loaded.raised
           THEN fpc' = "raised" /\ exc' = "load" /\ threads' = <<>> /\ ret' = <<>>
           ELSE IF Truthy(loaded.threads)
           THEN fpc' = "returned" /\ exc' = "none" /\ threads' = loaded.threads
                /\ ret' = loaded.threads
           ELSE fpc' = "q_active" /\ exc' = "none" /\ threads' = loaded.threads
                /\ ret' = <<>>
    /\ saved' = "none"
    /\ UNCHANGED now

\* a failed query whose exception is not caught
QueryFailedAborts(name, nextpc) ==
    /\ q' = [q EXCEPT ![name] = [st |-> "failed", res |-> <<>>]]
    /\ threads' = threads
    /\ fpc' = "raised"
    /\ exc' = name

\* what a failed query does to the call: logged, the call goes on
QueryFailed(name, nextpc) ==
    /\ q' = [q EXCEPT ![name] = [st |-> "failed", res |-> <<>>]]
    /\ threads' = threads
    /\ fpc' = nextpc
    /\ exc' = exc

\* lines 210-216
QueryActive ==
    /\ fpc = "q_active"
    /\ \/ QueryFailed("active", "q_public")
       \/ \E res \in QueryResults(ActiveThreadObjects) :
            /\ q' = [q EXCEPT !["active"] = [st |-> "ok", res |-> res]]
            /\ threads' = threads \o OfChannel(res, call.ch)
            /\ fpc' = "q_public"
            /\ exc' = exc
    /\ UNCHANGED <<now, cache, call, ret, saved>>
    /\ UNCHANGED nvars

\* the archived-public query followed by a save of the list so far
QueryArchivedPublicSaves ==
    /\ fpc = "q_public"
    /\ \E res \in QueryResults(ArchivedThreadObjects(call.ch, ArchiveTimes)) :
        /\ q' = [q EXCEPT !["public"] = [st |-> "ok", res |-> res]]
        /\ threads' = threads \o res
        /\ fpc' = "q_private"
        /\ exc' = exc
        /\ cache' = [cache EXCEPT ![call.ch] =
                [exists |-> TRUE, mtime |-> now, fmt |-> "json",
                 data |-> <<>>, origin |-> threads \o res]]
    /\ UNCHANGED <<now, call, ret, saved>>
    /\ UNCHANGED nvars

\* lines 219-223
QueryArchivedPublic ==
    /\ fpc = "q_public"
    /\ \/ QueryFailed("public", "q_private")
       \/ \E res \in QueryResults(ArchivedThreadObjects(call.ch, ArchiveTimes)) :
            /\ q' = [q EXCEPT !["public"] = [st |-> "ok", res |-> res]]
            /\ threads' = threads \o res
            /\ fpc' = "q_private"
            /\ exc' = exc
    /\ UNCHANGED <<now, cache, call, ret, saved>>
    /\ UNCHANGED nvars

\* lines 232-252: what follows the last query, with no await in between
Finish(ths, outcome) ==
    LET final == ApplyAgeFilter(Deduplicate(ths), call.max_age_days, now)
        save == IF call.use_cache
                THEN SaveThreadsToCache(cache, call.ch, final, now, outcome)
                ELSE [raised |-> FALSE, cache |-> cache]
    IN  /\ threads' = final
        /\ cache' = save.cache
        /\ saved' = (IF call.use_cache THEN outcome ELSE "none")
        /\ IF save.raised
           THEN fpc' = "raised" /\ exc' = "makedirs" /\ ret' = <<>>
           ELSE fpc' = "returned" /\ exc' = exc /\ ret' = final

\* a thread is public or private for life: the private query returns none of
\* the threads the public query returned
PublicIds == {q["public"].res[i].id.v : i \in 1..Len(q["public"].res)}

\* lines 226-252
QueryArchivedPrivate ==
    /\ fpc = "q_private"
    /\ \E outcome \in (IF call.use_cache THEN SaveOutcomes ELSE {"ok"}) :
        \/ /\ q' = [q EXCEPT !["private"] = [st |-> "failed", res |-> <<>>]]
           /\ Finish(threads, outcome)
        \/ \E res \in QueryResults(ArchivedThreadObjects(call.ch, ArchiveTimes)) :
            /\ q' = [q EXCEPT !["private"] = [st |-> "ok", res |-> res]]
            /\ \A i \in 1..Len(res) : res[i].id.v \notin PublicIds
            /\ Finish(threads \o res, outcome)
    /\ UNCHANGED <<now, call>>
    /\ UNCHANGED nvars

\* the frame of a finished call is gone
FetchReset ==
    /\ fpc' = "idle"
    /\ call' = IdleCall
    /\ q' = NoQueries
    /\ threads' = <<>>
    /\ ret' = <<>>
    /\ exc' = "none"
    /\ saved' = "none"

\* a caller outside a session takes the result (or the exception)
Ack ==
    /\ npc = "off"
    /\ fpc \in {"returned", "raised"}
    /\ FetchReset
    /\ UNCHANGED <<now, cache>>
    /\ UNCHANGED nvars

(***************************************************************************)
(* The environment: the clock, and whatever else touches the cache files.  *)
(***************************************************************************)
\* time passes while the program waits
Tick ==
    /\ fpc \notin {"returned", "raised"}
    /\ \E d \in {TTL, TTL + 1} :
        /\ now + d <= StartTime + MaxElapsed
        /\ now' = now + d
    /\ UNCHANGED <<cache, fpc, call, threads, q, ret, exc, saved>>
    /\ UNCHANGED nvars

\* a cache file is damaged or removed behind the program's back
CorruptCache ==
    /\ fpc \notin {"returned", "raised"}
    /\ \E ch \in CallChannels :
        \E e \in {NoFile, BadFile(now, "garbage"), BadFile(now, "not_a_list")} :
            /\ cache[ch] # e
            /\ cache' = [cache EXCEPT ![ch] = e]
    /\ UNCHANGED <<now, fpc, call, threads, q, ret, exc, saved>>
    /\ UNCHANGED nvars

\* fetch_threads called on its own on any channel of the guild
FetchThreadsCalledOnAnyChannel ==
    /\ npc = "off"
    /\ fpc = "idle"
    /\ \E ch \in ChannelIds, use_cache \in BOOLEAN :
        CallFetchThreads(ch, use_cache, None)
    /\ UNCHANGED nvars

\* the call is cancelled while it awaits a query: `except Exception` catches
\* neither KeyboardInterrupt nor CancelledError
FetchCancelled ==
    /\ npc = "off"
    /\ fpc \in {"q_active", "q_public", "q_private"}
    /\ fpc' = "raised"
    /\ exc' = "cancelled"
    /\ UNCHANGED <<now, cache, call, threads, q, ret, saved>>
    /\ UNCHANGED nvars

\* fetch_threads called on its own, outside a session
FetchThreadsCalled ==
    /\ npc = "off"
    /\ fpc = "idle"
    /\ \E ch \in CallChannels, use_cache \in BOOLEAN, max_age_days \in MaxAgeValues :
        CallFetchThreads(ch, use_cache, max_age_days)
    /\ UNCHANGED nvars

(***************************************************************************)
(* The guild and its channels (organize_channels_by_category).             *)
(***************************************************************************)
CategoryChannel(i, nm) ==
    [kind |-> "category", id |-> IntId(i), name |-> nm, category_id |-> None]
TextChannel(i, nm, cat) ==
    [kind |-> "text", id |-> IntId(i), name |-> nm, category_id |-> cat]

CategoryNames == {"info", "dev"}
ChannelNames == {"general", "help"}
\* ids of the two categories of a guild, apart from the text channels' ids
CategoryIdOf(k) == Cardinality(ChannelIds) + k
CategoryRefs == {None, Some(IntId(CategoryIdOf(1))), Some(IntId(CategoryIdOf(2)))}

\* the guilds of the model: two categories, then text channels of ChannelIds,
\* each in one of the categories or in none
Guilds ==
    {<<CategoryChannel(CategoryIdOf(1), "info"), CategoryChannel(CategoryIdOf(2), n2)>>
        \o [c \in ChannelIds |-> TextChannel(c, names[c], cats[c])] :
        n2 \in CategoryNames,
        names \in {f \in [ChannelIds -> ChannelNames] : f[1] = "general"},
        cats \in [ChannelIds -> CategoryRefs]}

\* a Python dict kept as a sequence of <<key, value>> in insertion order
DictGet(d, k) == d[CHOOSE i \in 1..Len(d) : d[i][1] = k][2]

\* the key of the "Uncategorized" bucket in category_map
Uncategorized == [t |-> "str", v |-> 0]

\* lines 47-53: the first pass
CategoriesOf(channels) ==
    LET cats == SelectSeq(channels, LAMBDA c : c.kind = "category")
    IN  [i \in 1..Len(cats) |-> cats[i]]

InCategory(channels, c) ==
    /\ c.kind = "text"
    /\ c.category_id # None
    /\ \E k \in 1..Len(CategoriesOf(channels)) :
        CategoriesOf(channels)[k].id = c.category_id[1]

\* lines 36-63: <<category id, [name, channels]>> per category, in the order
\* of the channel list, and the text channels of no category
OrganizeChannelsByCategory(channels) ==
    LET cats == CategoriesOf(channels)
    IN  [categories |->
            [i \in 1..Len(cats) |->
                <<cats[i].id,
                  [name |-> cats[i].name,
                   channels |-> SelectSeq(channels,
                        LAMBDA c : InCategory(channels, c)
                                   /\ c.category_id[1] = cats[i].id)]>>],
         uncategorized |->
            SelectSeq(channels, LAMBDA c : c.kind = "text" /\ ~InCategory(channels, c))]

(***************************************************************************)
(* The prompts of a session (select_category, select_channel,              *)
(* select_thread, get_message_limit).                                      *)
(***************************************************************************)
\* `not channel_list` that answers no for every list
ListIsEmptyNever(list) == FALSE

\* Python's `not channel_list`
ListIsEmpty(list) == Len(list) = 0

\* `not threads` that answers no for every list
NoThreadsNever(ths) == FALSE

\* lines 367-369: select_thread's early return
NoThreads(ths) == Len(ths) = 0

\* lines 77-82: f"{name} ({n} channels)" per category, then the Uncategorized
\* bucket when it has channels
CategoryChoices(org) ==
    [i \in 1..Len(org.categories) |->
        <<org.categories[i][2].name, Len(org.categories[i][2].channels)>>]
    \o (IF Len(org.uncategorized) > 0
        THEN <<<<"Uncategorized", Len(org.uncategorized)>>>>
        ELSE <<>>)

RECURSIVE MapChoices(_, _, _, _)
\* d[choices[i]] = values[i] for i = from, from + 1, ...
MapChoices(d, choices, values, from) ==
    IF from > Len(values) THEN d
    ELSE MapChoices(DictSet(d, choices[from], values[from]), choices, values, from + 1)

\* lines 85-90
CategoryMap(org, choices) ==
    LET ids == [i \in 1..Len(org.categories) |-> org.categories[i][1]]
        d == MapChoices(<<>>, choices, ids, 1)
    IN  IF Len(org.uncategorized) > 0
        THEN DictSet(d, choices[Len(choices)], Uncategorized)
        ELSE d

\* lines 97-107
ChannelsOfCategory(org, id) ==
    IF id = Uncategorized THEN org.uncategorized
    ELSE DictGet(org.categories, id).channels

\* line 142: f"# {name} ({count} threads)", the count a number or "?"
ChannelLabel(ch, count) == <<ch.name, count>>

\* lines 130-136: the counts of select_channel under use_cache
CachedLabels(list) ==
    [i \in 1..Len(list) |->
        LET cached == LoadThreadsFromCache(cache, list[i].id.v, now).threads
        IN  ChannelLabel(list[i], IF Truthy(cached) THEN Some(Len(cached)) ELSE None)]

\* line 145
ChannelMap(list, choices) == MapChoices(<<>>, choices, list, 1)

\* line 373
ThreadChoices(ths) ==
    <<<<"No thread (main channel)">>>> \o [i \in 1..Len(ths) |-> <<"thread", ths[i].name>>]

\* lines 376-378
ThreadMap(ths, choices) ==
    MapChoices(<<<<choices[1], None>>>>, Tail(choices),
               [i \in 1..Len(ths) |-> Some(ths[i])], 1)

\* cli.py line 194: run() overrides the option
RunUseCache(option) == FALSE

\* the counts get_message_limit's prompt accepts: 1..100, default 10
MinLimit == 1
MaxLimit == 100
DefaultLimit == 10
LimitInputs == {MinLimit, DefaultLimit, MaxLimit}

NoNav ==
    [category |-> None, channel_list |-> <<>>, idx |-> 0, labels |-> <<>>, choices |-> <<>>,
     map |-> <<>>, selected_channel |-> None, threads |-> <<>>,
     fetched |-> FALSE, selected_thread |-> None, target |-> None, limit |-> 0,
     use_cache |-> FALSE, chosen |-> None]

Prompts == {"category_prompt", "channel_prompt", "thread_prompt", "limit_prompt"}

\* cli.py lines 182-188 up to the category prompt
SessionStart ==
    /\ npc = "start"
    /\ \/ LET org == OrganizeChannelsByCategory(guild)
              choices == CategoryChoices(org)
          IN  /\ nav' = [nav EXCEPT !.choices = choices,
                                    !.map = CategoryMap(org, choices)]
              /\ npc' = "category_prompt"
              /\ shown' = shown \cup {"category"}
       \/ \* fetch_guild or fetch_channels raises
          /\ npc' = "crashed"
          /\ UNCHANGED <<nav, shown>>
    /\ UNCHANGED <<now, cache, menu, world, guild, opts, disp, mpc, client, out>>
    /\ UNCHANGED fvars

\* lines 127-150 of select_channel, from channel number i on: under use_cache
\* every label comes from the cache and the prompt is shown; otherwise
\* fetch_threads is awaited for one channel after the other
SelectChannelFrom(base, list, use_cache, i, labels) ==
    IF use_cache
    THEN /\ nav' = [base EXCEPT !.use_cache = use_cache, !.channel_list = list,
                               !.choices = CachedLabels(list),
                               !.map = ChannelMap(list, CachedLabels(list))]
         /\ npc' = "channel_prompt"
         /\ shown' = shown \cup {"channel"}
         /\ FetchReset
    ELSE IF i > Len(list)
    THEN /\ nav' = [base EXCEPT !.use_cache = use_cache, !.channel_list = list, !.labels = labels,
                               !.choices = labels,
                               !.map = ChannelMap(list, labels)]
         /\ npc' = "channel_prompt"
         /\ shown' = shown \cup {"channel"}
         /\ FetchReset
    ELSE /\ nav' = [base EXCEPT !.use_cache = use_cache, !.channel_list = list, !.labels = labels, !.idx = i]
         /\ npc' = "counting"
         /\ shown' = shown
         /\ CallFetchThreads(list[i].id.v, use_cache, None)

\* lines 123-152: select_channel; on an empty list it echoes and returns None,
\* and run() returns (cli.py lines 198-199)
SelectChannel(base, list, use_cache) ==
    IF ListIsEmpty(list)
    THEN /\ out' = out \cup {"No channels found in this category."}
         /\ npc' = "done"
         /\ nav' = [base EXCEPT !.channel_list = list]
         /\ UNCHANGED shown
         /\ UNCHANGED fvars
    ELSE /\ out' = out
         /\ SelectChannelFrom(base, list, use_cache, 1, <<>>)

\* the user picks choice k of the category prompt: lines 97-107, then cli.py
\* lines 190-197
CategoryChosen(k) ==
    /\ npc = "category_prompt"
    /\ k \in 1..Len(nav.choices)
    /\ LET org == OrganizeChannelsByCategory(guild)
           id == DictGet(nav.map, nav.choices[k])
           list == ChannelsOfCategory(org, id)
       IN  IF ListIsEmpty(list)
           THEN /\ out' = out \cup {"No channels found in this category."}
                /\ npc' = "done"
                /\ nav' = [nav EXCEPT !.category = Some(id), !.channel_list = list]
                /\ UNCHANGED shown
                /\ UNCHANGED fvars
           ELSE SelectChannel([nav EXCEPT !.category = Some(id)], list,
                              RunUseCache(opts.use_cache))
    /\ UNCHANGED <<now, cache, menu, world, guild, opts, disp, mpc, client>>

\* fetch_threads came back for channel nav.idx of select_channel's loop
\* (lines 139-142)
ChannelCounted ==
    /\ npc = "counting"
    /\ fpc \in {"returned", "raised"}
    /\ IF fpc = "raised"
       THEN /\ npc' = "crashed"
            /\ FetchReset
            /\ UNCHANGED <<nav, shown>>
       ELSE SelectChannelFrom(nav, nav.channel_list, FALSE, nav.idx + 1,
                Append(nav.labels,
                       ChannelLabel(nav.channel_list[nav.idx], Some(Len(ret)))))
    /\ UNCHANGED <<now, cache, menu, world, guild, opts, disp, mpc, client, out>>

\* the user picks choice k of the channel prompt: line 152, then cli.py lines
\* 198-206 (a TextChannel is its own real object)
ChannelChosen(k) ==
    /\ npc = "channel_prompt"
    /\ k \in 1..Len(nav.choices)
    /\ LET ch == DictGet(nav.map, nav.choices[k])
       IN  /\ nav' = [nav EXCEPT !.selected_channel = Some(ch)]
           /\ CallFetchThreads(ch.id.v, RunUseCache(opts.use_cache), opts.max_age)
    /\ npc' = "fetching"
    /\ UNCHANGED <<now, cache, menu, world, guild, opts, disp, mpc, client, shown, out>>

\* a lookup that finds no thread
GetRealThreadObjectNotFound(th, found) == None

\* lines 337-355: a discord.Thread is its own real object; a cached thread is
\* looked up in the guild by its id, and may not be found
GetRealThreadObject(th, found) ==
    IF th.id.t = "int" THEN Some(th)
    ELSE IF found
    THEN Some(Thread(th.id.v, th.parent_id.v, th.name, th.archived, th.archive_timestamp))
    ELSE None

\* cli.py line 213
TargetOf(selected_thread, selected_channel) ==
    IF selected_thread # None THEN selected_thread ELSE selected_channel

\* fetch_threads came back for the selected channel: cli.py lines 206-216
\* with select_thread up to its prompt
ThreadsFetched ==
    /\ npc = "fetching"
    /\ fpc \in {"returned", "raised"}
    /\ IF fpc = "raised"
       THEN /\ npc' = "crashed"
            /\ UNCHANGED <<nav, shown, out>>
       ELSE IF NoThreads(ret)
       THEN /\ out' = out \cup {"No threads found in this channel."}
            /\ nav' = [nav EXCEPT !.threads = ret, !.fetched = TRUE,
                                  !.selected_thread = None,
                                  !.target = TargetOf(None, nav.selected_channel)]
            /\ npc' = "limit_prompt"
            /\ shown' = shown \cup {"limit"}
       ELSE /\ out' = out
            /\ nav' = [nav EXCEPT !.threads = ret, !.fetched = TRUE,
                                  !.choices = ThreadChoices(ret),
                                  !.map = ThreadMap(ret, ThreadChoices(ret))]
            /\ npc' = "thread_prompt"
            /\ shown' = shown \cup {"thread"}
    /\ FetchReset
    /\ UNCHANGED <<now, cache, menu, world, guild, opts, disp, mpc, client>>

\* the user picks choice k of the thread prompt: line 385, then cli.py lines
\* 211-216
ThreadChosen(k) ==
    /\ npc = "thread_prompt"
    /\ k \in 1..Len(nav.choices)
    /\ \E found \in BOOLEAN :
        LET picked == DictGet(nav.map, nav.choices[k])
            cached == picked # None /\ picked[1].id.t = "str"
            real == IF picked # None THEN GetRealThreadObject(picked[1], found)
                    ELSE picked
        IN  /\ ~cached => found
            /\ nav' = [nav EXCEPT !.chosen = picked,
                                  !.selected_thread = real,
                                  !.target = TargetOf(real, nav.selected_channel)]
    /\ npc' = "limit_prompt"
    /\ shown' = shown \cup {"limit"}
    /\ UNCHANGED <<now, cache, menu, world, guild, opts, disp, mpc, client, out>>
    /\ UNCHANGED fvars

\* the user enters a count: lines 161-168, then the dispatch of cli.py lines
\* 219-230 starts
LimitChosen(n) ==
    /\ npc = "limit_prompt"
    /\ n \in MinLimit..MaxLimit
    /\ nav' = [nav EXCEPT !.limit = n]
    /\ npc' = "dispatch"
    /\ UNCHANGED <<now, cache, menu, world, guild, opts, disp, mpc, client, shown, out>>
    /\ UNCHANGED fvars

(***************************************************************************)
(* The dispatch of a session (cli.py lines 219-230):                       *)
(* fetch_and_display_messages, fetch_and_create_prompt_file and            *)
(* summarize_prompt_file.                                                  *)
(***************************************************************************)
\* a message of a channel or thread; created_at in seconds
Message(i) == [id |-> i, created_at |-> i, author |-> "user", content |-> i]

\* what the remote side can hold for a target: messages, newest first
Histories ==
    {h \in SeqsUpTo({Message(i) : i \in 1..MaxMessages}, MaxMessages) :
        \A i \in 1..(Len(h) - 1) : h[i].created_at > h[i + 1].created_at}

Min(a, b) == IF a <= b THEN a ELSE b

\* a history that ignores its limit
HistoryUnlimited(h, limit) == h

\* channel.history(limit=limit): the limit newest messages, newest first
History(h, limit) == SubSeq(h, 1, Min(limit, Len(h)))

\* the list taken as it is
NotReversed(s) == s

\* reversed(messages)
Reversed(s) == [i \in 1..Len(s) |-> s[Len(s) + 1 - i]]

\* f"[{timestamp}] {message.author.name}: {message.content}"
FormatMessage(m) == <<m.created_at, m.author, m.content>>

\* cli_prompt_handler.py lines 34-37
MessageTexts(messages) ==
    LET oldest_first == Reversed(messages)
    IN  [i \in 1..Len(oldest_first) |-> FormatMessage(oldest_first[i])]

\* cli_prompt_handler.py lines 57-59
Filename(target, limit, t) == <<"prompt", t, target, limit>>

\* cli.py lines 177-178: --summarize implies --create-prompt
CreatePrompt(o) == o.create_prompt \/ o.summarize

\* the summary asked for whatever fetch_and_create_prompt_file returned
ShouldSummarizeAlways(summarize, prompt_file) == summarize

\* cli.py line 223
ShouldSummarize(summarize, prompt_file) == summarize /\ prompt_file # None

NoDisp ==
    [fetched |-> FALSE, source |-> <<>>, limit |-> 0, target |-> None,
     messages |-> <<>>, lines |-> <<>>, prompt_file |-> None, files |-> <<>>,
     summarize_called |-> FALSE]

\* the dispatch starting while the count is still being asked for
ResolvedAtLimitPrompt == npc \in {"dispatch", "limit_prompt"}

\* the dispatch starting although the user aborted a prompt
ResolvedOrCancelled == npc \in {"dispatch", "cancelled"}

\* run() reached line 219 with its target and its limit
Resolved == npc = "dispatch"

\* channel.history(limit=limit) on the target answered with the newest
\* messages of h
Fetched(h) ==
    [disp EXCEPT !.fetched = TRUE, !.source = h, !.limit = nav.limit,
                 !.target = nav.target, !.messages = History(h, nav.limit)]

\* channel.history raised
FetchFailed == [disp EXCEPT !.limit = nav.limit, !.target = nav.target]

\* cli.py line 230 with cli_discord_utils.py lines 171-187
FetchAndDisplayMessages ==
    /\ Resolved
    /\ ~CreatePrompt(opts)
    /\ \/ \E h \in Histories :
            LET messages == History(h, nav.limit)
            IN  /\ disp' = [Fetched(h) EXCEPT !.lines =
                                [i \in 1..Len(messages) |-> FormatMessage(messages[i])]]
                /\ npc' = "done"
       \/ /\ disp' = FetchFailed
          /\ npc' = "crashed"
    /\ UNCHANGED <<now, cache, menu, world, guild, opts, nav, shown, out, mpc, client>>
    /\ UNCHANGED fvars

\* cli.py lines 220-223 with cli_prompt_handler.py lines 27-81: the template is
\* read after the messages were fetched; only its absence is caught
FetchAndCreatePromptFile ==
    /\ Resolved
    /\ CreatePrompt(opts)
    /\ \/ \E h \in Histories, template_found \in BOOLEAN, written \in BOOLEAN :
            LET texts == MessageTexts(History(h, nav.limit))
                filename == Filename(nav.target, nav.limit, now)
            IN  IF ~template_found
                THEN /\ out' = out \cup {"Error: prompt.md not found."}
                     /\ disp' = [Fetched(h) EXCEPT !.prompt_file = None]
                     /\ npc' = IF ShouldSummarize(opts.summarize, None)
                               THEN "summarizing" ELSE "done"
                ELSE IF ~written
                THEN /\ out' = out
                     /\ disp' = Fetched(h)
                     /\ npc' = "crashed"
                ELSE /\ out' = out \cup {"Created prompt file"}
                     /\ disp' = [Fetched(h) EXCEPT
                            !.prompt_file = Some(filename),
                            !.files = Append(disp.files,
                                [name |-> filename,
                                 content |-> [template |-> "prompt.md", texts |-> texts]])]
                     /\ npc' = IF ShouldSummarize(opts.summarize, Some(filename))
                               THEN "summarizing" ELSE "done"
       \/ /\ disp' = FetchFailed
          /\ npc' = "crashed"
          /\ out' = out
    /\ UNCHANGED <<now, cache, menu, world, guild, opts, nav, shown, mpc, client>>
    /\ UNCHANGED fvars

\* cli.py lines 224-228 with cli_llm_handler.py lines 34-71: a summary file, or
\* None on any failure
SummarizePromptFile ==
    /\ npc = "summarizing"
    /\ \E ok \in BOOLEAN :
        IF ok
        THEN /\ disp' = [disp EXCEPT !.summarize_called = TRUE,
                            !.files = Append(disp.files,
                                [name |-> <<"summary", disp.prompt_file>>,
                                 content |-> "summary"])]
             /\ out' = out \cup {"Created summary file"}
        ELSE /\ disp' = [disp EXCEPT !.summarize_called = TRUE]
             /\ out' = out \cup {"Failed to create summary."}
    /\ npc' = "done"
    /\ UNCHANGED <<now, cache, menu, world, guild, opts, nav, shown, mpc, client>>
    /\ UNCHANGED fvars

\* the user aborts the prompt: the KeyboardInterrupt leaves run()
PromptCancelled ==
    /\ npc \in Prompts
    /\ npc' = "cancelled"
    /\ UNCHANGED <<now, cache, menu, world, guild, opts, disp, mpc, client, nav, shown, out>>
    /\ UNCHANGED fvars

\* the channels select_channel is given when it is called on its own
ListedChannels == <<TextChannel(1, "general", None), TextChannel(2, "help", None)>>

\* select_channel(channel_list, use_cache=True) called on its own: lines
\* 123-150 up to the prompt
SelectChannelCalled ==
    /\ npc = "off"
    /\ fpc = "idle"
    /\ SelectChannel(NoNav, ListedChannels, TRUE)
    /\ UNCHANGED <<now, cache, menu, world, guild, opts, disp, mpc, client>>

\* lines 148-152: the user picks choice k and select_channel returns the
\* channel mapped to it
SelectChannelReturns(k) ==
    /\ npc = "channel_prompt"
    /\ k \in 1..Len(nav.choices)
    /\ nav' = [NoNav EXCEPT !.selected_channel = Some(DictGet(nav.map, nav.choices[k]))]
    /\ npc' = "off"
    /\ shown' = {}
    /\ UNCHANGED <<now, cache, menu, world, guild, opts, disp, mpc, client, out>>
    /\ UNCHANGED fvars

SelectChannelPicked == \E k \in 1..Cardinality(ChannelIds) : SelectChannelReturns(k)

CategoryPicked == \E k \in 1..3 : CategoryChosen(k)
ChannelPicked == \E k \in 1..Cardinality(ChannelIds) : ChannelChosen(k)
ThreadPicked == \E k \in 1..(Cardinality(ThreadIds) + 1) : ThreadChosen(k)
LimitEntered == \E n \in LimitInputs : LimitChosen(n)

(***************************************************************************)
(* main() of cli.py: login, the command, and the finally that closes the   *)
(* client.                                                                 *)
(***************************************************************************)
\* the ways run() ends: it returned, the user aborted a prompt, an exception
SessionOver == npc \in {"done", "cancelled", "crashed"}

\* line 338: loop.run_until_complete(start_client()), before the try
StartClient ==
    /\ mpc = "start"
    /\ \/ client' = "logged_in" /\ mpc' = "cli"
       \/ \* login raises and the exception leaves main()
          client' = client /\ mpc' = "raised"
    /\ UNCHANGED <<now, cache, menu, world, guild, opts, npc, nav, shown, out, disp>>
    /\ UNCHANGED fvars

\* line 342: cli() runs thread_catchup, whose run() starts
CliInvoked ==
    /\ mpc = "cli"
    /\ npc = "off"
    /\ npc' = "start"
    /\ UNCHANGED <<now, cache, menu, world, guild, opts, nav, shown, out, disp, mpc, client>>
    /\ UNCHANGED fvars

\* lines 343-346: the finally, however cli() ended
CloseClient ==
    /\ mpc = "cli"
    /\ SessionOver
    /\ client' = "closed"
    /\ mpc' = IF npc = "done" THEN "exited" ELSE "raised"
    /\ UNCHANGED <<now, cache, menu, world, guild, opts, npc, nav, shown, out, disp>>
    /\ UNCHANGED fvars

(***************************************************************************)
(* discord_catchup.py: the commands list_channels, list_threads and        *)
(* interactive, each run by cli() on the event loop of main().             *)
(***************************************************************************)
NoMenu ==
    [pc |-> "off", cmd |-> "none", interactive |-> FALSE, loop |-> "idle",
     picked |-> "none", exc |-> "none", choices |-> <<>>, selected |-> None,
     echoed |-> <<>>]

\* the prompts of the three commands
MenuPrompts ==
    {"main_menu", "category_prompt", "channel_prompt", "channel_action_prompt",
     "thread_prompt", "thread_action_prompt", "limit_prompt"}

\* loop.run_until_complete(...): asyncio refuses to run a loop that is
\* already running
RunUntilComplete(loop) == IF loop = "running" THEN "RuntimeError" ELSE "ok"

\* an exception leaves run(): no handler in the commands, so it leaves the
\* outermost run_until_complete and the command
Raised(m, e) == [m EXCEPT !.pc = "raised", !.exc = e, !.loop = "idle"]

\* run() of list_channels or list_threads returns, and the callback returns
\* None: to cli() when the command was given on the command line, to the
\* `await` of lines 325 and 327 when the menu called it
Returned(m) ==
    IF m.cmd = "interactive" THEN Raised(m, "TypeError")
    ELSE [m EXCEPT !.pc = "exited", !.loop = "idle"]

\* list_channels.callback(...) and list_threads.callback(...), lines 210-211
\* and 283-284: a plain function that starts its run() on the event loop
Callback(m, flag, entry) ==
    IF RunUntilComplete(m.loop) = "ok"
    THEN [m EXCEPT !.interactive = flag, !.loop = "running", !.pc = entry]
    ELSE Raised(m, "RuntimeError")

\* lines 88-97 and 198-199, 226-229: one echoed line per channel or thread
Lines(s) == [i \in 1..Len(s) |-> <<s[i].name, s[i].id.v>>]

\* lines 116-126: the values of the category choices
MenuCategoryChoices(org) ==
    [i \in 1..Len(org.categories) |-> <<"id", org.categories[i][1]>>]
    \o (IF Len(org.uncategorized) > 0 THEN <<<<"uncategorized">>>> ELSE <<>>)
    \o <<<<"all">>>>

\* lines 135-160: the values of the channel choices, str(channel.id)
MenuChannelChoices(channels, org, selected_category) ==
    LET list == IF selected_category[1] = "all"
                THEN SelectSeq(channels, LAMBDA c : c.kind = "text")
                ELSE IF selected_category[1] = "uncategorized"
                THEN org.uncategorized
                ELSE DictGet(org.categories, selected_category[2]).channels
    IN  [i \in 1..Len(list) |-> Str(list[i].id)]

\* the variables of the thread_catchup model, which these commands leave alone
rest == <<now, cache, fvars, world, guild, opts, npc, nav, shown, out, disp, mpc, client>>

\* cli() runs `list_channels`, with or without --interactive
ListChannelsInvoked ==
    /\ menu.pc = "cli"
    /\ \E flag \in BOOLEAN :
        menu' = Callback([menu EXCEPT !.cmd = "list_channels"], flag, "get_channels")
    /\ UNCHANGED rest

\* cli() runs `list_threads`, with or without --interactive
ListThreadsInvoked ==
    /\ menu.pc = "cli"
    /\ \E flag \in BOOLEAN :
        menu' = Callback([menu EXCEPT !.cmd = "list_threads"], flag, "get_threads")
    /\ UNCHANGED rest

\* cli() runs `interactive`: lines 329-330, then the menu of lines 313-320
InteractiveInvoked ==
    /\ menu.pc = "cli"
    /\ menu' = IF RunUntilComplete(menu.loop) = "ok"
               THEN [menu EXCEPT !.cmd = "interactive", !.loop = "running",
                                 !.pc = "main_menu"]
               ELSE Raised(menu, "RuntimeError")
    /\ UNCHANGED rest

\* lines 322-327: the user picks an action of the main menu
MainMenuPicked ==
    /\ menu.pc = "main_menu"
    /\ \E action \in {"channels", "threads", "exit"} :
        menu' = IF action = "exit"
                THEN [menu EXCEPT !.picked = action, !.pc = "exited", !.loop = "idle"]
                ELSE IF action = "channels"
                THEN Callback([menu EXCEPT !.picked = action], TRUE, "get_channels")
                ELSE Callback([menu EXCEPT !.picked = action], TRUE, "get_threads")
    /\ UNCHANGED rest

\* lines 85-132 of list_channels: the listing, or the category prompt
ChannelsFetched ==
    /\ menu.pc = "get_channels"
    /\ \/ menu' = Raised(menu, "HTTPException")
       \/ menu' = IF ~menu.interactive
                  THEN Returned([menu EXCEPT !.echoed = Lines(guild)])
                  ELSE [menu EXCEPT
                            !.choices = MenuCategoryChoices(OrganizeChannelsByCategory(guild)),
                            !.pc = "category_prompt"]
    /\ UNCHANGED rest

\* lines 129-166: the category picked, then the channel prompt when the
\* category has channels
CategorySelected ==
    /\ menu.pc = "category_prompt"
    /\ \E k \in 1..Len(menu.choices) :
        LET channel_choices ==
                MenuChannelChoices(guild, OrganizeChannelsByCategory(guild), menu.choices[k])
        IN  menu' = IF Len(channel_choices) > 0
                    THEN [menu EXCEPT !.choices = channel_choices, !.pc = "channel_prompt"]
                    ELSE Returned(menu)
    /\ UNCHANGED rest

\* lines 163-176
ChannelSelected ==
    /\ menu.pc = "channel_prompt"
    /\ \E k \in 1..Len(menu.choices) :
        menu' = [menu EXCEPT !.selected = Some(menu.choices[k]),
                             !.pc = "channel_action_prompt"]
    /\ UNCHANGED rest

\* lines 178-208: the action picked for the channel
ChannelActionSelected ==
    /\ menu.pc = "channel_action_prompt"
    /\ \/ menu' = [menu EXCEPT !.pc = "limit_prompt"]
       \/ \* "threads": get_threads of the channel, which may raise
          \/ menu' = Raised(menu, "HTTPException")
          \/ \E ths \in QueryResults(ActiveThreadObjects) :
                menu' = Returned([menu EXCEPT !.echoed = Lines(ths)])
       \/ \* "copy"
          menu' = Returned([menu EXCEPT !.echoed = <<<<"Channel ID", menu.selected[1].v>>>>])
    /\ UNCHANGED rest

\* lines 222-247 of list_threads: the listing, or the thread prompt when
\* there are threads
ThreadsListed ==
    /\ menu.pc = "get_threads"
    /\ \/ menu' = Raised(menu, "HTTPException")
       \/ \E ths \in QueryResults(ActiveThreadObjects) :
            menu' = IF ~menu.interactive
                    THEN Returned([menu EXCEPT !.echoed = Lines(ths)])
                    ELSE IF Len(ths) = 0
                    THEN Returned([menu EXCEPT !.echoed = <<"No threads found.">>])
                    ELSE [menu EXCEPT !.choices = [i \in 1..Len(ths) |-> Str(ths[i].id)],
                                      !.pc = "thread_prompt"]
    /\ UNCHANGED rest

\* lines 244-256
ThreadSelected ==
    /\ menu.pc = "thread_prompt"
    /\ \E k \in 1..Len(menu.choices) :
        menu' = [menu EXCEPT !.selected = Some(menu.choices[k]),
                             !.pc = "thread_action_prompt"]
    /\ UNCHANGED rest

\* lines 258-281: the action picked for the thread
ThreadActionSelected ==
    /\ menu.pc = "thread_action_prompt"
    /\ \/ menu' = [menu EXCEPT !.pc = "limit_prompt"]
       \/ \* "copy"
          menu' = Returned([menu EXCEPT !.echoed = <<<<"Thread ID", menu.selected[1].v>>>>])
    /\ UNCHANGED rest

\* lines 180-192 and 260-272: the count, then get_messages and the echo of
\* the messages, newest first
LimitGiven ==
    /\ menu.pc = "limit_prompt"
    /\ \E n \in LimitInputs :
        \/ menu' = Raised(menu, "HTTPException")
        \/ \E h \in Histories :
            LET messages == History(h, n)
            IN  menu' = Returned([menu EXCEPT !.echoed =
                            [i \in 1..Len(messages) |-> FormatMessage(messages[i])]])
    /\ UNCHANGED rest

\* Ctrl-C at a prompt: KeyboardInterrupt leaves run()
MenuPromptCancelled ==
    /\ menu.pc \in MenuPrompts
    /\ menu' = Raised(menu, "KeyboardInterrupt")
    /\ UNCHANGED rest

(***************************************************************************)
(* Properties of fetch_threads and of the cache.                           *)
(***************************************************************************)
\* the call in progress returned from the cache, with no remote query
Hit == fpc = "returned" /\ \A n \in QueryNames : q[n].st = "pending"
\* the call returned after the three remote queries
LiveReturn == fpc = "returned" /\ \A n \in QueryNames : q[n].st # "pending"

\* what the successful queries returned for the channel, in query order
Merged ==
    OfChannel(q["active"].res, call.ch) \o q["public"].res \o q["private"].res

IdsOf(s) == {s[i].id.v : i \in 1..Len(s)}
Range(s) == {s[i] : i \in 1..Len(s)}
FirstWithId(s, v) == s[CHOOSE i \in 1..Len(s) :
                        s[i].id.v = v /\ \A j \in 1..(i - 1) : s[j].id.v # v]

\* C1: of two records with the same id returned by different queries, the one
\* kept in the result of a live fetch is the first in query order (active, then
\* archived public, then archived private).
C1_FirstSeenWins ==
    LiveReturn => \A i \in 1..Len(ret) : ret[i] = FirstWithId(Merged, ret[i].id.v)

\* C2: no sequence fetch_threads returns, live or from the cache, holds two
\* records with the same id.
C2_IdsUnique ==
    fpc = "returned" =>
        \A i, j \in 1..Len(ret) : Str(ret[i].id) = Str(ret[j].id) => i = j

C2_Witness ==
    /\ LiveReturn
    /\ Len(ret) >= 2
    /\ Len(Merged) > Len(ret)

\* C3: a failed query neither stops the call nor raises out of it: the other
\* queries still run, and a live fetch returns one record per id among the
\* results of the queries that succeeded, each taken from those results.
C3_QueriesIndependent ==
    /\ exc \notin QueryNames
    /\ q["active"].st = "failed" => fpc \in {"q_public", "q_private", "returned", "raised"}
    /\ q["public"].st = "failed" => fpc \in {"q_private", "returned", "raised"}
    /\ fpc = "returned" =>
        \/ Hit
        \/ /\ LiveReturn
           /\ IdsOf(ret) = IdsOf(Merged)
           /\ Range(ret) \subseteq Range(Merged)
           /\ Cardinality(IdsOf(ret)) = Len(ret)

C3_Witness ==
    /\ LiveReturn
    /\ q["active"].st = "failed"
    /\ q["public"].st = "ok"
    /\ q["private"].st = "failed"
    /\ ret = q["public"].res
    /\ ret # <<>>

\* the attributes a live thread and a cached one both carry, ids by their digits
SameThread(a, b) ==
    /\ a.id.v = b.id.v
    /\ a.parent_id.v = b.parent_id.v
    /\ a.name = b.name
    /\ a.archived = b.archived
    /\ a.locked = b.locked
    /\ a.archive_timestamp = b.archive_timestamp
SameThreads(s, u) ==
    Len(s) = Len(u) /\ \A i \in 1..Len(s) : SameThread(s[i], u[i])

\* the call found, on entry, the file a complete save wrote within the window
SawFreshSave ==
    /\ fpc # "idle"
    /\ call.use_cache
    /\ call.seen.exists
    /\ call.seen.fmt = "json"
    /\ call.at - call.seen.mtime <= TTL

\* C4: a call with use_cache=True that follows, within the freshness window, a
\* call that saved its result performs no remote query and returns the
\* threads of that earlier result, an empty result included.
C4_RepeatCallHitsCache ==
    SawFreshSave =>
        /\ \A n \in QueryNames : q[n].st = "pending"
        /\ fpc = "returned" => SameThreads(ret, call.seen.origin)

SawStale ==
    /\ fpc # "idle"
    /\ call.use_cache
    /\ call.seen.exists
    /\ call.at - call.seen.mtime > TTL

Miss == [raised |-> FALSE, threads |-> <<>>]

\* C5: a cache file written more than 3600 seconds before it is read is a miss
\* whatever it holds, and the call that read it goes on to the remote queries.
C5_StaleIsMiss ==
    /\ \A ch \in ChannelIds :
        (cache[ch].exists /\ now - cache[ch].mtime > TTL)
            => LoadThreadsFromCache(cache, ch, now) = Miss
    /\ SawStale =>
        /\ ~Hit
        /\ exc # "load"
        /\ fpc = "returned" => LiveReturn

C5_Witness ==
    /\ SawStale
    /\ call.seen.fmt = "json"
    /\ call.seen.data # <<>>
    /\ LiveReturn

\* last_activity of a thread: its archive time, or now when it has none
LastActivity(th, t) ==
    IF th.archive_timestamp = None THEN t ELSE th.archive_timestamp[1]

\* C6: with max_age_days = N, every record fetch_threads returns has
\* last_activity >= now - N days.
C6_AgeFilterApplied ==
    (fpc = "returned" /\ call.max_age_days # None) =>
        \A i \in 1..Len(ret) :
            LastActivity(ret[i], now) >= now - call.max_age_days[1] * SecondsPerDay

\* C7: every record fetch_threads returns for a channel has that channel as
\* its parent.
C7_ParentIsChannel ==
    fpc = "returned" => \A i \in 1..Len(ret) : ret[i].parent_id.v = call.ch

C7_Witness ==
    /\ LiveReturn
    /\ q["active"].st = "ok"
    /\ \E i \in 1..Len(q["active"].res) : q["active"].res[i].parent_id.v # call.ch
    /\ ret # <<>>

SawUnreadable ==
    /\ fpc # "idle"
    /\ call.use_cache
    /\ \/ ~call.seen.exists
       \/ call.at - call.seen.mtime > TTL
       \/ call.seen.fmt # "json"

\* C10: whatever the cache file is (absent, stale, or fresh with content that
\* does not deserialize), the loader returns no records and does not raise,
\* and the call goes on to the remote queries.
C10_LoadNeverFails ==
    /\ \A ch \in ChannelIds :
        LET entry == cache[ch]
        IN  (~entry.exists \/ now - entry.mtime > TTL \/ entry.fmt # "json")
                => LoadThreadsFromCache(cache, ch, now) = Miss
    /\ SawUnreadable =>
        /\ ~Hit
        /\ exc # "load"
        /\ fpc \in {"q_active", "q_public", "q_private", "returned", "raised"}

C10_Witness ==
    /\ SawUnreadable
    /\ call.seen.exists
    /\ call.seen.fmt \in {"garbage", "not_a_list"}
    /\ call.at - call.seen.mtime <= TTL
    /\ LiveReturn

\* the call went through its three queries and on to the save
ReachedSave == call.use_cache /\ \A n \in QueryNames : q[n].st # "pending"

\* C11: whatever the storage does to the save (the cache directory cannot be
\* created, the file cannot be opened or written), the save does not raise and
\* fetch_threads with use_cache=True returns the aggregated sequence.
C11_SaveFailuresSwallowed ==
    ReachedSave =>
        /\ fpc = "returned"
        /\ exc = "none"
        /\ ret = threads

\* the file a complete save of ths at time t leaves
NewEntry(ths, t) == JsonFile(t, [i \in 1..Len(ths) |-> DictFromThread(ths[i])], ths)

\* C12: a reader of the cache file of a channel finds, during and after a save
\* (a save that failed part-way included), the complete entry that was there
\* before or the complete new one, never an empty or truncated file.
C12_AtomicOverwrite ==
    /\ \A ch \in ChannelIds : cache[ch].exists => cache[ch].fmt = "json"
    /\ ReachedSave => cache[call.ch] \in {call.seen, NewEntry(threads, call.at)}

\* the entry holds the records of s, one per thread and in the order of s
EntryHolds(entry, s) ==
    /\ entry.exists
    /\ entry.fmt = "json"
    /\ Len(entry.data) = Len(s)
    /\ \A i \in 1..Len(s) :
        /\ entry.data[i].id.v = s[i].id.v
        /\ entry.data[i] = DictFromThread(s[i])

\* C13 as stated: whenever a call with use_cache=True returns from the live
\* path, the cache entry of the channel has been overwritten and holds exactly
\* the records of the returned sequence.
C13_PersistBeforeReturn ==
    (LiveReturn /\ call.use_cache) =>
        /\ EntryHolds(cache[call.ch], ret)
        /\ cache[call.ch].mtime = now

\* C13: whenever a call with use_cache=True returns from the live path and the
\* storage accepted the write, the cache entry of the channel has been
\* overwritten and holds exactly the records of the returned sequence, in the
\* same order, whatever entry was there before.
C13_PersistedUnlessStorageFails ==
    (LiveReturn /\ call.use_cache /\ saved = "ok") =>
        /\ EntryHolds(cache[call.ch], ret)
        /\ cache[call.ch].mtime = now

C13_Witness ==
    /\ LiveReturn
    /\ call.use_cache
    /\ saved = "ok"
    /\ SawStale
    /\ call.seen.fmt = "json"
    /\ call.seen.data # <<>>
    /\ ret # <<>>
    /\ cache[call.ch] # call.seen
    /\ EntryHolds(cache[call.ch], ret)

\* C19: loading, within the freshness window, the file a save wrote returns
\* the saved records, in order and equal in every attribute of a thread
\* record: id, parent id, name, archived, locked, archive_timestamp,
\* last_message_id and auto_archive_duration.
C19_SaveLoadRoundTrip ==
    \A ch \in ChannelIds :
        (cache[ch].exists /\ cache[ch].fmt = "json" /\ now - cache[ch].mtime <= TTL)
            => LoadThreadsFromCache(cache, ch, now).threads = cache[ch].origin

\* C21: whatever calls were made on whatever channels, every record in the
\* cache file of a channel has that channel as its parent.
C21_NoCrossChannelMixing ==
    \A ch \in ChannelIds :
        \A i \in 1..Len(cache[ch].data) : cache[ch].data[i].parent_id.v = ch

C21_Witness ==
    /\ \A ch \in ChannelIds : cache[ch].exists /\ cache[ch].data # <<>>
    /\ LiveReturn
    /\ saved = "ok"
    /\ \E i \in 1..Len(q["active"].res) : q["active"].res[i].parent_id.v # call.ch

\* C22: a call on one channel, its save included, leaves the cache file of
\* every other channel as it was, content and mtime, and so leaves unchanged
\* what a load of any other channel returns.
C22_ChannelsIndependent ==
    [][\A ch \in ChannelIds :
        ch # call.ch =>
            /\ cache'[ch] = cache[ch]
            /\ LoadThreadsFromCache(cache', ch, now') = LoadThreadsFromCache(cache, ch, now)]_vars

C22_Witness ==
    /\ LiveReturn
    /\ saved = "ok"
    /\ ret # <<>>
    /\ cache[call.ch].mtime = now
    /\ \E ch \in ChannelIds :
        /\ ch # call.ch
        /\ cache[ch].exists
        /\ cache[ch].data # <<>>

\* the entry step of a call with use_cache=True: the load
LoadStep == fpc = "idle" /\ fpc' # "idle" /\ call'.use_cache

\* C23: a load changes no cache file: a missing, stale or unreadable entry is
\* after the load what it was before it, mtime included.
C23_LoadIsReadOnly == [][LoadStep => cache' = cache]_vars

C23_Witness ==
    /\ fpc = "q_active"
    /\ call.use_cache
    /\ call.seen.exists
    /\ call.at - call.seen.mtime > TTL \/ call.seen.fmt # "json"
    /\ cache[call.ch] = call.seen

\* the call is between its entry and the end of its last query, or was
\* cancelled there
BeforeSave ==
    \/ fpc \in {"q_active", "q_public", "q_private"}
    \/ fpc = "raised" /\ exc = "cancelled"

\* C24: a call with use_cache=True leaves the cache file of its channel as it
\* found it until its three queries are over; the file changes only in the
\* step that ends the last query, so a call cancelled before that leaves no
\* trace in the cache.
C24_NoIncrementalWrites ==
    /\ []((BeforeSave /\ call.use_cache) => cache[call.ch] = call.seen)
    /\ [][cache' # cache =>
            /\ fpc = "q_private"
            /\ \A n \in QueryNames : q'[n].st # "pending"]_vars

C24_Witness ==
    /\ fpc = "raised"
    /\ exc = "cancelled"
    /\ call.use_cache
    /\ call.seen.exists
    /\ q["active"].st = "ok"
    /\ q["public"].st = "ok"
    /\ threads # <<>>
    /\ cache[call.ch] = call.seen

\* C29: a call with use_cache=False takes no result from the cache, whatever
\* the cache holds, changes no cache file, and returns the deduplicated
\* results of its three queries.
C29_NoCacheIsNoOp ==
    /\ []((fpc # "idle" /\ ~call.use_cache) =>
            /\ ~Hit
            /\ fpc = "returned" => (LiveReturn /\ ret = Deduplicate(Merged)))
    /\ [][((fpc # "idle" /\ ~call.use_cache) \/ (fpc = "idle" /\ fpc' # "idle" /\ ~call'.use_cache))
            => cache' = cache]_vars

C29_Witness ==
    /\ LiveReturn
    /\ ~call.use_cache
    /\ cache[call.ch].exists
    /\ cache[call.ch].fmt = "json"
    /\ cache[call.ch].data # <<>>
    /\ now - cache[call.ch].mtime <= TTL
    /\ ~SameThreads(ret, cache[call.ch].origin)

\* the file can serve a hit at time t: it exists, is at most 3600 seconds
\* old, deserializes and holds at least one record
Usable(entry, t) ==
    /\ entry.exists
    /\ t - entry.mtime <= TTL
    /\ entry.fmt = "json"
    /\ Len(entry.data) >= 1

\* C30: a call with use_cache=True returns from the cache exactly when the
\* file it finds exists, is at most 3600 seconds old, deserializes and holds
\* at least one record; a fresh file that holds no record (the save of an
\* empty result) sends the call to the three remote queries again.
C30_HitNeedsRecords ==
    /\ (fpc # "idle" /\ call.use_cache) => (Hit <=> Usable(call.seen, call.at))
    /\ (SawFreshSave /\ call.seen.data = <<>>) =>
        /\ fpc \in {"q_active", "q_public", "q_private", "returned", "raised"}
        /\ fpc = "returned" => LiveReturn

C30_Witness ==
    /\ SawFreshSave
    /\ call.seen.data = <<>>
    /\ call.seen.mtime = call.at
    /\ LiveReturn
    /\ q["active"].st = "ok"
    /\ q["public"].st = "ok"
    /\ q["private"].st = "ok"

(***************************************************************************)
(* Properties of a thread_catchup session.                                 *)
(***************************************************************************)
\* the user picked a category whose channel list is empty
PickedEmptyCategory == nav.category # None /\ nav.channel_list = <<>>

\* C8: when the category picked has no channels, the session reports it and
\* returns: the channel prompt is never shown, no thread is fetched or
\* offered, no count is asked for and nothing is retrieved.
C8_EmptyCategoryReturns ==
    PickedEmptyCategory =>
        /\ npc = "done"
        /\ "No channels found in this category." \in out
        /\ shown = {"category"}
        /\ fpc = "idle"
        /\ ~nav.fetched
        /\ nav.target = None
        /\ nav.limit = 0

C8_Witness == PickedEmptyCategory /\ npc = "done"

\* the threads of the selected channel were fetched and there are none
FetchedNoThreads == nav.fetched /\ nav.threads = <<>>

\* C9: when the selected channel has no threads, the thread prompt is never
\* shown, the selected thread is None, and the session goes on to the count
\* prompt with the selected channel as its target.
C9_NoThreadsSkipsPrompt ==
    FetchedNoThreads =>
        /\ "thread" \notin shown
        /\ "limit" \in shown
        /\ npc \in {"limit_prompt", "dispatch", "summarizing", "done", "cancelled", "crashed"}
        /\ nav.selected_thread = None
        /\ nav.selected_channel # None
        /\ nav.target = nav.selected_channel

C9_Witness ==
    /\ FetchedNoThreads
    /\ npc = "dispatch"
    /\ nav.limit = DefaultLimit
    /\ nav.target = nav.selected_channel

\* the state of the navigation machine run() is in, by its position:
\* 1 SelectingCategory, 2 SelectingChannel, 3 SelectingThread,
\* 4 ChoosingLimit, 5 Resolved, 6 the dispatch under way, 7 the session over
Stage(pc) ==
    CASE pc \in {"off", "start"} -> 0
      [] pc = "category_prompt" -> 1
      [] pc \in {"counting", "channel_prompt"} -> 2
      [] pc \in {"fetching", "thread_prompt"} -> 3
      [] pc = "limit_prompt" -> 4
      [] pc = "dispatch" -> 5
      [] pc = "summarizing" -> 6
      [] OTHER -> 7

NavigationStep ==
    /\ Stage(npc') >= Stage(npc)
    /\ (Stage(npc') > Stage(npc) /\ Stage(npc') <= 5) => Stage(npc') = Stage(npc) + 1
    /\ shown' # shown => \E p \in {"category", "channel", "thread", "limit"} :
            /\ p \notin shown
            /\ shown' = shown \cup {p}
    /\ (npc = "fetching" /\ npc' = "limit_prompt") => ret = <<>>
    /\ (npc = "fetching" /\ npc' = "thread_prompt") => ret # <<>>
    /\ npc = "dispatch" => npc' \in {"dispatch", "summarizing", "done", "crashed"}
    /\ disp' # disp => Stage(npc) \in {5, 6}

NavigationState ==
    /\ Stage(npc) \in {5, 6} =>
        /\ {"category", "channel", "limit"} \subseteq shown
        /\ nav.fetched
        /\ nav.target # None
        /\ "thread" \notin shown => nav.threads = <<>>
    /\ disp # NoDisp => Stage(npc) >= 5 /\ "limit" \in shown

\* C14: a session goes through SelectingCategory, SelectingChannel,
\* SelectingThread, ChoosingLimit and Resolved in that order, never back and
\* never past one of them, except that the thread prompt is not shown when
\* there are no threads; messages are fetched only once Resolved is reached,
\* and after Resolved comes only the dispatch.
C14_NavigationOrder == []NavigationState /\ [][NavigationStep]_vars

C14_Witness ==
    /\ npc = "done"
    /\ shown = {"category", "channel", "thread", "limit"}
    /\ nav.selected_thread # None
    /\ disp.fetched

\* C15: once the user has aborted a prompt the session is over: it never
\* reached Resolved, it has fetched and displayed no message and written no
\* file, and from then on no prompt is shown and nothing is emitted.
C15_CancellationEndsSession ==
    /\ [](npc = "cancelled" => nav.limit = 0 /\ disp = NoDisp)
    /\ [][npc = "cancelled" =>
            /\ npc' = "cancelled"
            /\ shown' = shown
            /\ out' = out
            /\ disp' = disp
            /\ nav' = nav]_vars

C15_Witness ==
    /\ npc = "cancelled"
    /\ shown = {"category", "channel", "thread"}
    /\ mpc = "raised"
    /\ client = "closed"

\* C16: from Resolved on the count of the session is an integer of 1..100;
\* the dispatcher asks the remote side for that count and gets at most that
\* many messages.
C16_BoundedLimit ==
    /\ Stage(npc) \in {5, 6} => nav.limit \in MinLimit..MaxLimit
    /\ disp # NoDisp =>
        /\ disp.limit = nav.limit
        /\ disp.limit \in MinLimit..MaxLimit
        /\ Len(disp.messages) <= disp.limit

C16_Witness ==
    /\ disp.fetched
    /\ Len(disp.source) > disp.limit
    /\ Len(disp.messages) = disp.limit
    /\ disp.lines # <<>>

\* C17: of the messages the remote side returned newest first, the prompt
\* file holds all of them, once each, in the reversed (oldest first) order,
\* and display mode echoes all of them, once each, in the order returned.
C17_DispatchOrder ==
    LET m == disp.messages
    IN  /\ (disp.fetched /\ ~CreatePrompt(opts)) =>
            /\ Len(disp.lines) = Len(m)
            /\ \A i \in 1..Len(m) : disp.lines[i] = FormatMessage(m[i])
        /\ \A k \in 1..Len(disp.files) :
            disp.files[k].name[1] = "prompt" =>
                LET texts == disp.files[k].content.texts
                IN  /\ Len(texts) = Len(m)
                    /\ \A i \in 1..Len(m) : texts[i] = FormatMessage(m[Len(m) + 1 - i])

C17_Witness ==
    /\ disp.fetched
    /\ Len(disp.messages) = MaxMessages
    /\ Len(disp.files) >= 1
    /\ disp.files[1].content.texts[1] = FormatMessage(Message(1))

\* fetch_and_create_prompt_file found no prompt.md
TemplateMissing == "Error: prompt.md not found." \in out

\* C18: when prompt.md is missing, fetch_and_create_prompt_file reports it
\* and returns None without raising, no prompt file exists, and the session
\* ends without calling the summarizer.
C18_MissingTemplate ==
    TemplateMissing =>
        /\ disp.prompt_file = None
        /\ disp.files = <<>>
        /\ ~disp.summarize_called
        /\ npc = "done"

C18_Witness ==
    /\ TemplateMissing
    /\ opts.summarize
    /\ disp.fetched
    /\ disp.messages # <<>>
    /\ mpc = "exited"

\* C20: when main() is left, by whatever path, the client has been closed;
\* and no command runs on a client that has not logged in.
C20_ClientLifecycle ==
    /\ mpc \in {"exited", "raised"} => client = "closed"
    /\ npc # "off" => client # "new"

\* the file exists, is at most 3600 seconds old and deserializes
FreshReadable(entry, t) ==
    /\ entry.exists
    /\ t - entry.mtime <= TTL
    /\ entry.fmt = "json"

\* C25: select_channel with use_cache=True reaches its prompt without a
\* remote thread query and without writing a cache file, each channel
\* labelled with the number of threads in its cache file when that file is
\* fresh and readable, and with the unknown marker otherwise.
C25_SelectChannelUnderCaching ==
    [][(npc = "off" /\ npc' = "channel_prompt" /\ nav'.use_cache) =>
        /\ cache' = cache
        /\ fpc' = "idle"
        /\ \A n \in QueryNames : q'[n].st = "pending"
        /\ Len(nav'.choices) = Len(nav'.channel_list)
        /\ \A i \in 1..Len(nav'.channel_list) :
            LET ch == nav'.channel_list[i]
                entry == cache[ch.id.v]
            IN  nav'.choices[i] =
                    ChannelLabel(ch, IF FreshReadable(entry, now)
                                     THEN Some(Len(entry.data)) ELSE None)]_vars

\* C26: from Resolved on, the target is the thread select_thread returned
\* when it returned one, and is the selected channel exactly when
\* select_thread returned None (the main-channel choice, or no threads).
C26_TargetResolution ==
    Stage(npc) \in {5, 6} =>
        /\ nav.target # None
        /\ nav.chosen # None =>
            /\ nav.target # nav.selected_channel
            /\ nav.target[1].id.v = nav.chosen[1].id.v
            /\ nav.target[1].name = nav.chosen[1].name
        /\ nav.chosen = None => nav.target = nav.selected_channel
        /\ nav.target = nav.selected_channel <=> nav.chosen = None

C26_Witness ==
    /\ npc = "dispatch"
    /\ "thread" \in shown
    /\ nav.chosen # None
    /\ nav.target = nav.chosen
    /\ nav.target # nav.selected_channel

\* C27: no failure of a collaborator (the channel listing, a thread query,
\* the cache, the message history, the prompt files) leaves the session as an
\* exception.
C27_NoFatalFailure == npc # "crashed"

\* C28: when thread_catchup runs with the cache flag set, select_channel and
\* the fetch_threads call for the selected channel both get use_cache=True.
C28_CacheFlagReachesAggregator ==
    opts.use_cache =>
        /\ npc \in {"counting", "channel_prompt"} => nav.use_cache
        /\ npc \in {"counting", "fetching"} => call.use_cache

\* the entries select_category offers, in the order of its choices
CategoryCandidates(org) ==
    [i \in 1..Len(org.categories) |-> org.categories[i][1]]
    \o (IF Len(org.uncategorized) > 0 THEN <<Uncategorized>> ELSE <<>>)

\* the entries select_thread offers, in the order of its choices
ThreadCandidates(ths) == <<None>> \o [i \in 1..Len(ths) |-> Some(ths[i])]

\* picking choice k of the prompt returns entry k of the candidates
ResolvesTo(candidates) ==
    /\ Len(nav.choices) = Len(candidates)
    /\ \A k \in 1..Len(candidates) : DictGet(nav.map, nav.choices[k]) = candidates[k]

C31_CategorySelectable ==
    npc = "category_prompt" =>
        ResolvesTo(CategoryCandidates(OrganizeChannelsByCategory(guild)))

C31_ChannelSelectable == npc = "channel_prompt" => ResolvesTo(nav.channel_list)

C31_ThreadSelectable == npc = "thread_prompt" => ResolvesTo(ThreadCandidates(nav.threads))

\* C31: at each of the three prompts, whichever choice the user picks, the
\* value the function returns is the entry that choice was made for, also
\* when two entries have the same name and the same count.
C31_EveryCandidateSelectable ==
    /\ C31_CategorySelectable
    /\ C31_ChannelSelectable
    /\ C31_ThreadSelectable

\* the menu of `interactive` was left, by Exit or by an exception
MenuLoopEnded == menu.cmd = "interactive" /\ menu.pc \in {"exited", "raised"}

\* C32: in `interactive`, picking Browse channels or Browse threads never
\* ends the menu loop with an error from starting the browse action on the
\* running event loop: the loop is left by Exit (or by the user aborting a
\* prompt), and a browse action that was picked is running or has run.
C32_MenuLoopSurvivesBrowse ==
    /\ menu.exc # "RuntimeError"
    /\ MenuLoopEnded => menu.picked = "exit" \/ menu.exc = "KeyboardInterrupt"

(***************************************************************************)
(* Specifications.                                                         *)
(***************************************************************************)
FetchInit ==
    /\ now = StartTime
    /\ cache = [c \in ChannelIds |-> NoFile]
    /\ fpc = "idle"
    /\ call = IdleCall
    /\ threads = <<>>
    /\ q = NoQueries
    /\ ret = <<>>
    /\ exc = "none"
    /\ saved = "none"

NoOpts == [use_cache |-> FALSE, max_age |-> None, create_prompt |-> FALSE, summarize |-> FALSE]

\* fetch_threads called again and again on a channel, the remote side holding
\* threads archived long ago and threads archived just now
Init ==
    /\ FetchInit
    /\ world = [archive_times |-> {OldTime, StartTime}]
    /\ guild = <<>>
    /\ opts = NoOpts
    /\ npc = "off"
    /\ nav = NoNav
    /\ shown = {}
    /\ out = {}
    /\ disp = NoDisp
    /\ mpc = "off"
    /\ client = "logged_in"
    /\ menu = NoMenu

Next ==
    \/ FetchThreadsCalled
    \/ QueryActive
    \/ QueryArchivedPublic
    \/ QueryArchivedPrivate
    \/ Ack

Spec == Init /\ [][Next]_vars

\* the same calls with the clock running and the cache files exposed to damage
CacheInit ==
    /\ FetchInit
    /\ world = [archive_times |-> {StartTime}]
    /\ guild = <<>>
    /\ opts = NoOpts
    /\ npc = "off"
    /\ nav = NoNav
    /\ shown = {}
    /\ out = {}
    /\ disp = NoDisp
    /\ mpc = "off"
    /\ client = "logged_in"
    /\ menu = NoMenu

CacheNext ==
    \/ FetchThreadsCalled
    \/ QueryActive
    \/ QueryArchivedPublic
    \/ QueryArchivedPrivate
    \/ Ack
    \/ Tick
    \/ CorruptCache

CacheSpec == CacheInit /\ [][CacheNext]_vars

\* fetch_threads called again and again on any channel, with and without the
\* cache, and cancelled at any of its awaits
StoreNext ==
    \/ FetchThreadsCalledOnAnyChannel
    \/ QueryActive
    \/ QueryArchivedPublic
    \/ QueryArchivedPrivate
    \/ FetchCancelled
    \/ Ack

StoreSpec == CacheInit /\ [][StoreNext]_vars

\* select_channel called with use_cache=True between fetch_threads calls,
\* the clock running and the cache files exposed to damage
SelectNext ==
    \/ CacheNext
    \/ SelectChannelCalled
    \/ SelectChannelPicked

SelectSpec == CacheInit /\ [][SelectNext]_vars

\* one thread_catchup session on any guild of the model
NavInit ==
    /\ FetchInit
    /\ world = [archive_times |-> {StartTime}]
    /\ guild \in Guilds
    /\ opts \in [use_cache : BOOLEAN, max_age : MaxAgeValues \ {None},
                 create_prompt : {FALSE}, summarize : {FALSE}]
    /\ npc = "start"
    /\ nav = NoNav
    /\ shown = {}
    /\ out = {}
    /\ disp = NoDisp
    /\ mpc = "cli"
    /\ client = "logged_in"
    /\ menu = NoMenu

NavNext ==
    \/ SessionStart
    \/ CategoryPicked
    \/ ChannelCounted
    \/ ChannelPicked
    \/ ThreadsFetched
    \/ ThreadPicked
    \/ LimitEntered
    \/ FetchAndDisplayMessages
    \/ PromptCancelled
    \/ QueryActive
    \/ QueryArchivedPublic
    \/ QueryArchivedPrivate

NavSpec == NavInit /\ [][NavNext]_vars

\* the guilds main() is run on: the first channel in the first category, the
\* second one there too or in no category, the second category empty
MainGuilds ==
    {g \in Guilds :
        /\ g[2].name = "dev"
        /\ g[4].name = "help"
        /\ g[3].category_id = Some(IntId(CategoryIdOf(1)))
        /\ g[4].category_id \in {None, Some(IntId(CategoryIdOf(1)))}}

\* main() from its first line to its exit, with thread_catchup as the command
MainInit ==
    /\ FetchInit
    /\ world = [archive_times |-> {StartTime}]
    /\ guild \in MainGuilds
    /\ opts \in [use_cache : BOOLEAN, max_age : MaxAgeValues \ {None},
                 create_prompt : BOOLEAN, summarize : BOOLEAN]
    /\ npc = "off"
    /\ nav = NoNav
    /\ shown = {}
    /\ out = {}
    /\ disp = NoDisp
    /\ mpc = "start"
    /\ client = "new"
    /\ menu = NoMenu

MainNext ==
    \/ StartClient
    \/ CliInvoked
    \/ SessionStart
    \/ CategoryPicked
    \/ ChannelCounted
    \/ ChannelPicked
    \/ ThreadsFetched
    \/ ThreadPicked
    \/ LimitEntered
    \/ FetchAndDisplayMessages
    \/ FetchAndCreatePromptFile
    \/ SummarizePromptFile
    \/ PromptCancelled
    \/ QueryActive
    \/ QueryArchivedPublic
    \/ QueryArchivedPrivate
    \/ CloseClient

MainSpec == MainInit /\ [][MainNext]_vars

\* one command of discord_catchup.py, given to cli() with the client logged in
MenuInit ==
    /\ FetchInit
    /\ world = [archive_times |-> {StartTime}]
    /\ guild \in Guilds
    /\ opts = NoOpts
    /\ npc = "off"
    /\ nav = NoNav
    /\ shown = {}
    /\ out = {}
    /\ disp = NoDisp
    /\ mpc = "off"
    /\ client = "logged_in"
    /\ menu = [NoMenu EXCEPT !.pc = "cli"]

MenuNext ==
    \/ ListChannelsInvoked
    \/ ListThreadsInvoked
    \/ InteractiveInvoked
    \/ MainMenuPicked
    \/ ChannelsFetched
    \/ CategorySelected
    \/ ChannelSelected
    \/ ChannelActionSelected
    \/ ThreadsListed
    \/ ThreadSelected
    \/ ThreadActionSelected
    \/ LimitGiven
    \/ MenuPromptCancelled

MenuSpec == MenuInit /\ [][MenuNext]_vars
====
